---- MODULE Spec2Model ----
(***************************************************************************)
(* Model of the enhanced App component of frontend/src/App.js: the         *)
(* location acquisition and geofence verification session.                 *)
(*                                                                         *)
(* The React state cells (useState) and the ref (useRef) are variables.    *)
(* A state of the model is a state between event handlers: every handler   *)
(* runs to completion and the component re-renders before the next one.    *)
(* A handler invoked from the rendered UI reads the state cells of the     *)
(* latest render.  A callback registered with the browser (the             *)
(* watchPosition callbacks, the effect cleanup) keeps the closure of the   *)
(* render in which it was registered: the state cells it reads are the     *)
(* values captured then, and they are modelled as captured values.         *)
(* State setters called after the component unmounted change nothing.      *)
(***************************************************************************)
EXTENDS Integers, Sequences, FiniteSets, TLC

----------------------------------------------------------------------------
(* Bounds of the model *)

\* samples delivered by the location provider in one behaviour
MaxSamples == 12
\* interval timer ids the browser hands out that are alive or referenced
MaxTimers == 2
\* watch ids the browser hands out that are alive or referenced
MaxWatches == 2
\* getCurrentPosition requests outstanding at once
MaxPending == 2
\* fetch requests outstanding at once
MaxInFlight == 2
\* samples delivered in a behaviour that re-enters getUserLocation
MaxReentrantSamples == 1
MaxLabelChunks == 4

(* Program constants *)

MAX_HISTORY_POINTS == 10
HISTORY_HINT == 3
PROGRESS_STEP == 10
PROGRESS_FULL == 100

\* null of a state cell holding an object or a string: the empty tuple;
\* a non-null value v is the one-element tuple <<v>>
Null == << >>
Some(v) == << v >>
\* null of a cell holding a browser id (ids are positive)
NoId == 0

\* the texts typed into the building-name field
Names == {"", "HQ", "Lab"}
\* latitude readings of the device
Readings == {48}
\* messages of a GeolocationPositionError
ProviderMessages == {"Timeout expired"}
\* detail strings of a non-2xx backend response
Details == {"not found", ""}
\* messages of the error a rejected fetch or response.json() throws
RejectionMessages == {"Failed to fetch"}

VARIABLES
    phase,            \* "created" | "mounted" | "unmounted"
    hasGeolocation,   \* navigator.geolocation is present
    buildingName,     \* the text of the building-name field
    building, userLocation, locationHistory, checkResult,
    loading, error, mapUrl, watchId, isMonitoring, locatingProgress,
    locatingTimer,    \* locatingTimer.current
    cleanupWatchId,   \* watchId as captured by the effect cleanup closure
    timers,           \* interval timers alive in the browser
    watches,          \* subscriptions registered with the provider
    positionRequests, \* outstanding getCurrentPosition requests
    lookups,          \* /api/building requests in flight
    checks,           \* /api/check-location requests in flight
    now,              \* Date.now(): advances with every sample
    delivered         \* history: every sample appended, in arrival order

vars == << phase, hasGeolocation, buildingName, building, userLocation,
           locationHistory, checkResult, loading, error, mapUrl, watchId,
           isMonitoring, locatingProgress, locatingTimer, cleanupWatchId,
           timers, watches, positionRequests, lookups, checks, now,
           delivered >>

reactState == << buildingName, building, userLocation, locationHistory,
                 checkResult, loading, error, mapUrl, watchId, isMonitoring,
                 locatingProgress >>

formVars == << buildingName >>
lookupVars == << building, checkResult, mapUrl >>
sampleVars == << userLocation, locationHistory, now, delivered >>
monitorVars == << watchId, isMonitoring, watches >>
progressVars == << locatingProgress, locatingTimer, timers >>
netVars == << lookups, checks >>
envVars == << phase, hasGeolocation, cleanupWatchId >>

Mounted == phase = "mounted"

----------------------------------------------------------------------------
(* Helpers *)

Max(a, b) == IF a >= b THEN a ELSE b
Min(a, b) == IF a <= b THEN a ELSE b

\* Array.prototype.slice(begin): a negative begin counts from the end
Slice(s, begin) ==
    LET start == IF begin < 0 THEN Max(Len(s) + begin, 0)
                              ELSE Min(begin, Len(s))
    IN  SubSeq(s, start + 1, Len(s))

\* s without its i-th element
RemoveAt(s, i) == SubSeq(s, 1, i - 1) \o SubSeq(s, i + 1, Len(s))

\* String.prototype.trim on the texts of the model: a text of blanks
\* trims to the empty string, the other texts have no blanks at their ends
Trim(s) == IF s \in {"", " "} THEN "" ELSE s

\* an id the browser has not handed out among those alive or referenced
FreshIds(limit, used) == {i \in 1..limit : i \notin used}
FreshId(limit, used) == CHOOSE i \in FreshIds(limit, used) :
                            \A j \in FreshIds(limit, used) : i <= j

\* the object built from a GeolocationPosition at lines 364-369 / 412-417
\* (lng and accuracy are copied like lat and are left out)
NewLocation(reading, time) == [lat |-> reading, timestamp |-> time]

\* a faulty updater: slice(0, MAX_HISTORY_POINTS) keeps the oldest entries
AppendHistory_KeepOldest(prev, newLocation) ==
    SubSeq(Append(prev, newLocation), 1, Min(Len(prev) + 1, MAX_HISTORY_POINTS))

\* the updater of setLocationHistory, lines 374-377 / 422-425
AppendHistory(prev, newLocation) ==
    Slice(Append(prev, newLocation), 0 - MAX_HISTORY_POINTS)

\* the JSON body of POST /api/building, lines 323-327 (city and country
\* are state cells read like buildingName and are left out)
LookupBody == [name |-> buildingName]

\* a faulty body: slice(0, 3) sends the three oldest entries
CheckBody_OldestThree ==
    [building_name    |-> buildingName,
     user_location    |-> userLocation[1],
     location_history |-> IF Len(locationHistory) >= HISTORY_HINT
                          THEN Some(SubSeq(locationHistory, 1, HISTORY_HINT))
                          ELSE Null]

\* the JSON body of POST /api/check-location, lines 465-471; an undefined
\* member is left out by JSON.stringify, modelled as Null
CheckBody ==
    [building_name    |-> buildingName,
     user_location    |-> userLocation[1],
     location_history |-> IF Len(locationHistory) >= HISTORY_HINT
                          THEN Some(Slice(locationHistory, 0 - HISTORY_HINT))
                          ELSE Null]

\* the backend's answer to a lookup that found the building
BuildingData(req) == [name |-> req.name, lat |-> 1, lng |-> 2]

\* the template string of line 340
MapUrlOf(data) == [base |-> "https://www.openstreetmap.org/#map=", zoom |-> 18,
                   lat |-> data.lat, lng |-> data.lng]

\* a confidence label is a string, here the sequence of its characters;
\* the four phrases getConfidenceColor looks for, lines 506-509
DefinitelyInside ==
    <<"D", "e", "f", "i", "n", "i", "t", "e", "l", "y", " ", "i", "n", "s", "i", "d", "e">>
LikelyInside ==
    <<"L", "i", "k", "e", "l", "y", " ", "i", "n", "s", "i", "d", "e">>
Uncertain == <<"u", "n", "c", "e", "r", "t", "a", "i", "n">>
LikelyOutside ==
    <<"L", "i", "k", "e", "l", "y", " ", "o", "u", "t", "s", "i", "d", "e">>

\* the backend's answer to a verification, with the confidence_level it
\* carries: Null when the field is absent
CheckAnswer(req, label) ==
    [building_name |-> req.building_name, is_within_range |-> TRUE,
     confidence_level |-> label]

\* the backend's answer to a verification
CheckData(req) == CheckAnswer(req, Some(DefinitelyInside))

\* err.message of a failed round trip: the detail of the error payload
\* when present, else the generic text (lines 332, 476)
FailureMessage(detail, generic) ==
    IF detail = Null \/ detail[1] = "" THEN generic ELSE detail[1]

----------------------------------------------------------------------------
(* Initial state: the component has rendered once, no effect has run *)

Init ==
    /\ phase = "created"
    /\ hasGeolocation \in BOOLEAN
    /\ buildingName = ""
    /\ building = Null
    /\ userLocation = Null
    /\ locationHistory = << >>
    /\ checkResult = Null
    /\ loading = FALSE
    /\ error = Null
    /\ mapUrl = Null
    /\ watchId = NoId
    /\ isMonitoring = FALSE
    /\ locatingProgress = 0
    /\ locatingTimer = NoId
    /\ cleanupWatchId = NoId
    /\ timers = {}
    /\ watches = {}
    /\ positionRequests = 0
    /\ lookups = << >>
    /\ checks = << >>
    /\ now = 0
    /\ delivered = << >>

----------------------------------------------------------------------------
(* One-shot acquisition *)

\* startLocatingProgress, lines 289-300: the new interval replaces the ref,
\* the interval the ref named before is left running
startLocatingProgress ==
    LET id == FreshId(MaxTimers, timers \cup {locatingTimer})
    IN  /\ locatingProgress' = 0
        /\ timers' = timers \cup {id}
        /\ locatingTimer' = id

\* stopLocatingProgress, lines 303-306, called from a browser callback:
\* clearInterval always acts, the setter only while mounted
stopLocatingProgress ==
    /\ timers' = timers \ {locatingTimer}
    /\ locatingProgress' = IF Mounted THEN PROGRESS_FULL ELSE locatingProgress
    /\ UNCHANGED locatingTimer

\* the body of getUserLocation, lines 351-393
GetUserLocationBody ==
    IF ~hasGeolocation
    THEN /\ error' = Some(<<"Geolocation is not supported by your browser">>)
         /\ UNCHANGED << loading, progressVars, positionRequests >>
    ELSE /\ positionRequests < MaxPending
         /\ FreshIds(MaxTimers, timers \cup {locatingTimer}) # {}
         /\ error' = Null
         /\ loading' = TRUE
         /\ startLocatingProgress
         /\ positionRequests' = positionRequests + 1

\* getUserLocation invoked by a handler of the mounted component
getUserLocation ==
    /\ Mounted
    /\ GetUserLocationBody
    /\ UNCHANGED << envVars, formVars, lookupVars, sampleVars, monitorVars,
                    netVars >>

\* the mount effect, lines 489-500: the first acquisition starts and the
\* cleanup closure is created over the first render's watchId
Mount ==
    /\ phase = "created"
    /\ phase' = "mounted"
    /\ cleanupWatchId' = watchId
    /\ GetUserLocationBody
    /\ UNCHANGED << hasGeolocation, formVars, lookupVars, sampleVars,
                    monitorVars, netVars >>

\* a faulty delivery: the sample goes to the history only
DeliverSample_HistoryOnly(reading) ==
    LET newLocation == NewLocation(reading, now + 1)
    IN  IF Mounted
        THEN /\ now < MaxSamples
             /\ now' = now + 1
             /\ userLocation' = userLocation
             /\ locationHistory' = AppendHistory(locationHistory, newLocation)
             /\ delivered' = Append(delivered, newLocation)
        ELSE UNCHANGED sampleVars

\* a sample reaches the component: lines 371-377 / 419-425
DeliverSample(reading) ==
    LET newLocation == NewLocation(reading, now + 1)
    IN  IF Mounted
        THEN /\ now < MaxSamples
             /\ now' = now + 1
             /\ userLocation' = Some(newLocation)
             /\ locationHistory' = AppendHistory(locationHistory, newLocation)
             /\ delivered' = Append(delivered, newLocation)
        ELSE UNCHANGED sampleVars

\* the success callback of getCurrentPosition, lines 363-381
PositionSuccess(reading) ==
    /\ positionRequests > 0
    /\ positionRequests' = positionRequests - 1
    /\ DeliverSample(reading)
    /\ loading' = IF Mounted THEN FALSE ELSE loading
    /\ stopLocatingProgress
    /\ UNCHANGED << envVars, formVars, lookupVars, error, monitorVars, netVars >>

\* a faulty error callback: it also drops the sample and the history
PositionError_ClearsSample(message) ==
    /\ positionRequests > 0
    /\ positionRequests' = positionRequests - 1
    /\ error' = IF Mounted THEN Some(<<"Error getting location: ", message>>)
                           ELSE error
    /\ loading' = IF Mounted THEN FALSE ELSE loading
    /\ stopLocatingProgress
    /\ userLocation' = IF Mounted THEN Null ELSE userLocation
    /\ locationHistory' = IF Mounted THEN <<>> ELSE locationHistory
    /\ UNCHANGED << envVars, formVars, lookupVars, now, delivered,
                    monitorVars, netVars >>

\* the error callback of getCurrentPosition, lines 382-386
PositionError(message) ==
    /\ positionRequests > 0
    /\ positionRequests' = positionRequests - 1
    /\ error' = IF Mounted THEN Some(<<"Error getting location: ", message>>)
                           ELSE error
    /\ loading' = IF Mounted THEN FALSE ELSE loading
    /\ stopLocatingProgress
    /\ UNCHANGED << envVars, formVars, lookupVars, sampleVars, monitorVars,
                    netVars >>

\* a faulty tick: the clamp tests prev > 100, so the bar passes 100
ProgressTick_LateClamp(timer) ==
    /\ timer \in timers
    /\ Mounted
    /\ IF locatingProgress > PROGRESS_FULL
       THEN /\ timers' = timers \ {locatingTimer}
            /\ locatingProgress' = PROGRESS_FULL
       ELSE /\ timers' = timers
            /\ locatingProgress' = locatingProgress + PROGRESS_STEP
    /\ UNCHANGED << envVars, formVars, lookupVars, sampleVars, monitorVars,
                    netVars, loading, error, locatingTimer, positionRequests >>

\* one firing of an interval created by startLocatingProgress, lines 291-299;
\* the updater runs only while the component is mounted
ProgressTick(timer) ==
    /\ timer \in timers
    /\ Mounted
    /\ IF locatingProgress >= PROGRESS_FULL
       THEN /\ timers' = timers \ {locatingTimer}
            /\ locatingProgress' = PROGRESS_FULL
       ELSE /\ timers' = timers
            /\ locatingProgress' = locatingProgress + PROGRESS_STEP
    /\ UNCHANGED << envVars, formVars, lookupVars, sampleVars, monitorVars,
                    netVars, loading, error, locatingTimer, positionRequests >>

----------------------------------------------------------------------------
(* Continuous monitoring *)

\* the body of stopLocationMonitoring, lines 442-448, as a closure over the
\* watchId of one render; clearWatch always acts, the setters only while
\* the component is mounted
StopMonitoringWith(closureWatchId) ==
    /\ IF closureWatchId # NoId
       THEN /\ watches' = {w \in watches : w.id # closureWatchId}
            /\ watchId' = IF Mounted THEN NoId ELSE watchId
       ELSE UNCHANGED << watches, watchId >>
    /\ isMonitoring' = IF Mounted THEN FALSE ELSE isMonitoring

\* stopLocationMonitoring invoked from the latest render
stopLocationMonitoring ==
    /\ Mounted
    /\ StopMonitoringWith(watchId)
    /\ UNCHANGED << envVars, formVars, lookupVars, sampleVars, progressVars,
                    netVars, loading, error, positionRequests >>

\* a faulty start: the guard of line 397 is missing
startLocationMonitoring_NoGuard ==
    /\ Mounted
    /\ IF ~hasGeolocation
       THEN /\ error' = Some(<<"Geolocation is not supported by your browser">>)
            /\ isMonitoring' = FALSE
            /\ UNCHANGED << watchId, watches >>
       ELSE LET used == {w.id : w \in watches} \cup {watchId}
                id == FreshId(MaxWatches, used)
            IN  /\ FreshIds(MaxWatches, used) # {}
                /\ error' = Null
                /\ isMonitoring' = TRUE
                /\ watches' = watches \cup
                                {[id |-> id, closureWatchId |-> watchId]}
                /\ watchId' = id
    /\ UNCHANGED << envVars, formVars, lookupVars, sampleVars, progressVars,
                    netVars, loading, positionRequests >>

\* a faulty start: the provider check of line 402 is missing
startLocationMonitoring_NoProviderCheck ==
    /\ Mounted
    /\ IF watchId # NoId
       THEN UNCHANGED << error, monitorVars >>
       ELSE LET used == {w.id : w \in watches} \cup {watchId}
                id == FreshId(MaxWatches, used)
            IN  /\ FreshIds(MaxWatches, used) # {}
                /\ error' = Null
                /\ isMonitoring' = TRUE
                /\ watches' = watches \cup
                                {[id |-> id, closureWatchId |-> watchId]}
                /\ watchId' = id
    /\ UNCHANGED << envVars, formVars, lookupVars, sampleVars, progressVars,
                    netVars, loading, positionRequests >>

\* startLocationMonitoring invoked from the latest render, lines 396-439;
\* the callbacks handed to watchPosition close over this render, whose
\* stopLocationMonitoring reads this render's watchId
startLocationMonitoring ==
    /\ Mounted
    /\ IF watchId # NoId
       THEN UNCHANGED << error, monitorVars >>
       ELSE IF ~hasGeolocation
       THEN /\ error' = Some(<<"Geolocation is not supported by your browser">>)
            /\ isMonitoring' = FALSE
            /\ UNCHANGED << watchId, watches >>
       ELSE LET used == {w.id : w \in watches} \cup {watchId}
                id == FreshId(MaxWatches, used)
            IN  /\ FreshIds(MaxWatches, used) # {}
                /\ error' = Null
                /\ isMonitoring' = TRUE
                /\ watches' = watches \cup
                                {[id |-> id, closureWatchId |-> watchId]}
                /\ watchId' = id
    /\ UNCHANGED << envVars, formVars, lookupVars, sampleVars, progressVars,
                    netVars, loading, positionRequests >>

\* the success callback of watchPosition, lines 411-426
WatchSuccess(w, reading) ==
    /\ w \in watches
    /\ Mounted
    /\ DeliverSample(reading)
    /\ UNCHANGED << envVars, formVars, lookupVars, monitorVars, progressVars,
                    netVars, loading, error, positionRequests >>

\* a faulty error callback: ending the monitoring also drops the sample and
\* the history
WatchError_ClearsSamples(w, message) ==
    /\ w \in watches
    /\ Mounted
    /\ error' = Some(<<"Error monitoring location: ", message>>)
    /\ StopMonitoringWith(w.closureWatchId)
    /\ userLocation' = Null
    /\ locationHistory' = <<>>
    /\ UNCHANGED << envVars, formVars, lookupVars, now, delivered,
                    progressVars, netVars, loading, positionRequests >>

\* the error callback of watchPosition, lines 427-430: it calls the
\* stopLocationMonitoring of the render that registered the watch
WatchError(w, message) ==
    /\ w \in watches
    /\ Mounted
    /\ error' = Some(<<"Error monitoring location: ", message>>)
    /\ StopMonitoringWith(w.closureWatchId)
    /\ UNCHANGED << envVars, formVars, lookupVars, sampleVars, progressVars,
                    netVars, loading, positionRequests >>

----------------------------------------------------------------------------
(* Building lookup and verification *)

\* the onChange handler of the building-name field, line 529
setBuildingName(text) ==
    /\ Mounted
    /\ buildingName' = text
    /\ text # buildingName
    /\ UNCHANGED << envVars, lookupVars, sampleVars, monitorVars,
                    progressVars, netVars, loading, error, positionRequests >>

\* searchBuilding up to its first await, lines 309-328
searchBuilding ==
    /\ Mounted
    /\ IF Trim(buildingName) = ""
       THEN /\ error' = Some(<<"Please enter a building name">>)
            /\ UNCHANGED << loading, lookups >>
       ELSE /\ Len(lookups) + Len(checks) < MaxInFlight
            /\ loading' = TRUE
            /\ error' = Null
            /\ lookups' = Append(lookups, LookupBody)
    /\ UNCHANGED << envVars, formVars, lookupVars, sampleVars, monitorVars,
                    progressVars, checks, positionRequests >>

\* searchBuilding after a 2xx response, lines 335-340 and 345-347
LookupSuccess(i) ==
    /\ i \in 1..Len(lookups)
    /\ lookups' = RemoveAt(lookups, i)
    /\ IF Mounted
       THEN LET data == BuildingData(lookups[i])
            IN  /\ building' = Some(data)
                /\ checkResult' = Null
                /\ mapUrl' = Some(MapUrlOf(data))
                /\ loading' = FALSE
       ELSE UNCHANGED << lookupVars, loading >>
    /\ UNCHANGED << envVars, formVars, sampleVars, monitorVars, progressVars,
                    checks, error, positionRequests >>

\* a faulty catch block: the map link of the previous building survives
LookupFailed_KeepsMapUrl(i, message) ==
    /\ i \in 1..Len(lookups)
    /\ lookups' = RemoveAt(lookups, i)
    /\ IF Mounted
       THEN /\ error' = Some(<<message>>)
            /\ building' = Null
            /\ loading' = FALSE
            /\ UNCHANGED << checkResult, mapUrl >>
       ELSE UNCHANGED << lookupVars, loading, error >>
    /\ UNCHANGED << envVars, formVars, sampleVars, monitorVars, progressVars,
                    checks, positionRequests >>

\* the catch and finally blocks of searchBuilding, lines 341-347, with the
\* message of the error caught
LookupFailed(i, message) ==
    /\ i \in 1..Len(lookups)
    /\ lookups' = RemoveAt(lookups, i)
    /\ IF Mounted
       THEN /\ error' = Some(<<message>>)
            /\ building' = Null
            /\ mapUrl' = Null
            /\ loading' = FALSE
            /\ UNCHANGED checkResult
       ELSE UNCHANGED << lookupVars, loading, error >>
    /\ UNCHANGED << envVars, formVars, sampleVars, monitorVars, progressVars,
                    checks, positionRequests >>

\* searchBuilding after a non-2xx response, lines 330-333; detail is Null
\* when the payload carries none
LookupFailure(i, detail) ==
    LookupFailed(i, FailureMessage(detail, "Failed to find building"))

\* searchBuilding after fetch or response.json() rejected, lines 318, 331
LookupRejected(i, message) == LookupFailed(i, message)

\* a faulty check: the busy flag is raised before the precondition is tested
checkLocation_LoadingFirst ==
    /\ Mounted
    /\ loading' = TRUE
    /\ IF building = Null \/ userLocation = Null
       THEN /\ error' = Some(<<"Building and user location are required">>)
            /\ UNCHANGED checks
       ELSE /\ Len(lookups) + Len(checks) < MaxInFlight
            /\ error' = Null
            /\ checks' = Append(checks, CheckBody)
    /\ UNCHANGED << envVars, formVars, lookupVars, sampleVars, monitorVars,
                    progressVars, lookups, positionRequests >>

\* checkLocation up to its first await, lines 451-472
checkLocation ==
    /\ Mounted
    /\ IF building = Null \/ userLocation = Null
       THEN /\ error' = Some(<<"Building and user location are required">>)
            /\ UNCHANGED << loading, checks >>
       ELSE /\ Len(lookups) + Len(checks) < MaxInFlight
            /\ loading' = TRUE
            /\ error' = Null
            /\ checks' = Append(checks, CheckBody)
    /\ UNCHANGED << envVars, formVars, lookupVars, sampleVars, monitorVars,
                    progressVars, lookups, positionRequests >>

\* a faulty success path: the finally block of line 484 is missing
CheckSuccessWith_KeepsLoading(i, data) ==
    /\ i \in 1..Len(checks)
    /\ checks' = RemoveAt(checks, i)
    /\ IF Mounted
       THEN checkResult' = Some(data)
       ELSE UNCHANGED checkResult
    /\ UNCHANGED << envVars, formVars, building, mapUrl, sampleVars,
                    monitorVars, progressVars, lookups, error, loading,
                    positionRequests >>

\* checkLocation after a 2xx response carrying data, lines 479-480 and
\* 483-485
CheckSuccessWith(i, data) ==
    /\ i \in 1..Len(checks)
    /\ checks' = RemoveAt(checks, i)
    /\ IF Mounted
       THEN /\ checkResult' = Some(data)
            /\ loading' = FALSE
       ELSE UNCHANGED << checkResult, loading >>
    /\ UNCHANGED << envVars, formVars, building, mapUrl, sampleVars,
                    monitorVars, progressVars, lookups, error,
                    positionRequests >>

\* checkLocation after a 2xx response, lines 479-480 and 483-485
CheckSuccess(i) == CheckSuccessWith(i, CheckData(checks[i]))

\* a faulty catch block: it clears the building as the lookup's does
CheckFailed_ClearsBuilding(i, message) ==
    /\ i \in 1..Len(checks)
    /\ checks' = RemoveAt(checks, i)
    /\ IF Mounted
       THEN /\ error' = Some(<<message>>)
            /\ building' = Null
            /\ mapUrl' = Null
            /\ loading' = FALSE
       ELSE UNCHANGED << error, building, mapUrl, loading >>
    /\ UNCHANGED << envVars, formVars, checkResult, sampleVars, monitorVars,
                    progressVars, lookups, positionRequests >>

\* the catch and finally blocks of checkLocation, lines 481-485, with the
\* message of the error caught
CheckFailed(i, message) ==
    /\ i \in 1..Len(checks)
    /\ checks' = RemoveAt(checks, i)
    /\ IF Mounted
       THEN /\ error' = Some(<<message>>)
            /\ loading' = FALSE
       ELSE UNCHANGED << error, loading >>
    /\ UNCHANGED << envVars, formVars, lookupVars, sampleVars, monitorVars,
                    progressVars, lookups, positionRequests >>

\* checkLocation after a non-2xx response, lines 474-477
CheckFailure(i, detail) ==
    CheckFailed(i, FailureMessage(detail, "Failed to check location"))

\* checkLocation after fetch or response.json() rejected, lines 460, 475
CheckRejected(i, message) == CheckFailed(i, message)

----------------------------------------------------------------------------
(* Teardown *)

\* the cleanup of the mount effect, lines 492-499: it reads the watchId of
\* the first render and the live ref of the timer
Unmount ==
    /\ Mounted
    /\ phase' = "unmounted"
    /\ IF cleanupWatchId # NoId
       THEN watches' = {w \in watches : w.id # cleanupWatchId}
       ELSE watches' = watches
    /\ IF locatingTimer # NoId
       THEN timers' = timers \ {locatingTimer}
       ELSE timers' = timers
    /\ UNCHANGED << hasGeolocation, cleanupWatchId, formVars, lookupVars,
                    sampleVars, watchId, isMonitoring, locatingProgress,
                    locatingTimer, netVars, loading, error, positionRequests >>

----------------------------------------------------------------------------
(* What the rendered page lets the user do *)

\* String.prototype.includes: the label is scanned from its start for an
\* occurrence of the phrase
RECURSIVE Includes(_, _)
Includes(label, phrase) ==
    IF Len(phrase) > Len(label) THEN FALSE
    ELSE IF SubSeq(label, 1, Len(phrase)) = phrase THEN TRUE
    ELSE Includes(Tail(label), phrase)

\* a faulty colouring: 'Likely inside' is tested before 'Definitely inside'
getConfidenceColor_LikelyFirst(confidence) ==
    IF confidence = Null \/ confidence[1] = <<>> THEN "#f44336"
    ELSE IF Includes(confidence[1], LikelyInside) THEN "#8bc34a"
    ELSE IF Includes(confidence[1], DefinitelyInside) THEN "#4caf50"
    ELSE IF Includes(confidence[1], Uncertain) THEN "#ffeb3b"
    ELSE IF Includes(confidence[1], LikelyOutside) THEN "#ff9800"
    ELSE "#f44336"

\* getConfidenceColor, lines 503-511; !confidence holds of an absent label
\* and of the empty string
getConfidenceColor(confidence) ==
    IF confidence = Null \/ confidence[1] = <<>> THEN "#f44336"
    ELSE IF Includes(confidence[1], DefinitelyInside) THEN "#4caf50"
    ELSE IF Includes(confidence[1], LikelyInside) THEN "#8bc34a"
    ELSE IF Includes(confidence[1], Uncertain) THEN "#ffeb3b"
    ELSE IF Includes(confidence[1], LikelyOutside) THEN "#ff9800"
    ELSE "#f44336"

\* the background of the result card, lines 676-683; Null while no result
\* section is rendered
ResultCardColor ==
    IF checkResult = Null THEN Null
    ELSE Some(getConfidenceColor(checkResult[1].confidence_level))

\* a faulty page: the controls are never disabled
ControlsAlwaysEnabled == TRUE

\* disabled={loading} of the fields and of the three buttons, lines 531,
\* 543, 559, 592, 668
ControlsEnabled == ~loading
\* the check button is rendered only with a building and a location, line 664
CheckButtonShown == building # Null /\ userLocation # Null
\* either the start or the stop button is rendered, lines 607-621
StartButtonShown == ~isMonitoring
StopButtonShown == isMonitoring

TypeBuildingName == \E text \in Names : ControlsEnabled /\ setBuildingName(text)
ClickSearch == ControlsEnabled /\ searchBuilding
ClickGetLocation == ControlsEnabled /\ getUserLocation
ClickCheck == ControlsEnabled /\ CheckButtonShown /\ checkLocation
ClickStart == StartButtonShown /\ startLocationMonitoring
ClickStop == StopButtonShown /\ stopLocationMonitoring

\* what the browser and the backend do
PositionArrives == \E reading \in Readings : PositionSuccess(reading)
PositionFails == \E message \in ProviderMessages : PositionError(message)
TimerFires == \E timer \in timers : ProgressTick(timer)
WatchArrives ==
    \E w \in watches, reading \in Readings : WatchSuccess(w, reading)
WatchFails ==
    \E w \in watches, message \in ProviderMessages : WatchError(w, message)
LookupSucceeds == \E i \in 1..Len(lookups) : LookupSuccess(i)
LookupFails ==
    \E i \in 1..Len(lookups), detail \in {Null} \cup {Some(d) : d \in Details} :
        LookupFailure(i, detail)
LookupIsRejected ==
    \E i \in 1..Len(lookups), message \in RejectionMessages :
        LookupRejected(i, message)
CheckSucceeds == \E i \in 1..Len(checks) : CheckSuccess(i)
CheckIsRejected ==
    \E i \in 1..Len(checks), message \in RejectionMessages :
        CheckRejected(i, message)
CheckFails ==
    \E i \in 1..Len(checks), detail \in {Null} \cup {Some(d) : d \in Details} :
        CheckFailure(i, detail)

\* the program as rendered: the user acts through the controls the page
\* shows enabled
Next ==
    \/ Mount \/ Unmount
    \/ TypeBuildingName
    \/ ClickSearch \/ ClickGetLocation \/ ClickCheck
    \/ ClickStart \/ ClickStop
    \/ PositionArrives \/ PositionFails \/ TimerFires
    \/ WatchArrives \/ WatchFails
    \/ LookupSucceeds \/ LookupFails \/ LookupIsRejected
    \/ CheckSucceeds \/ CheckFails \/ CheckIsRejected

Spec == Init /\ [][Next]_vars

\* the completions the browser owes to the operations behind the busy
\* flag: getCurrentPosition is called with a timeout (line 389), so one of
\* its two callbacks runs, and a fetch settles, by a response or by a
\* rejection
PositionCompletes == PositionArrives \/ PositionFails
LookupCompletes == LookupSucceeds \/ LookupFails \/ LookupIsRejected
CheckCompletes == CheckSucceeds \/ CheckFails \/ CheckIsRejected

\* the program as rendered, with every pending operation completed in the
\* end
SpecFair ==
    /\ Spec
    /\ WF_vars(PositionCompletes)
    /\ WF_vars(LookupCompletes)
    /\ WF_vars(CheckCompletes)

\* the handlers as functions that guard themselves (lines 397, 443, 452):
\* each is also invoked where the page does not render its control
CallCheck == ~CheckButtonShown /\ checkLocation
CallStart == ~StartButtonShown /\ startLocationMonitoring
CallStop == ~StopButtonShown /\ stopLocationMonitoring

NextHandlers ==
    \/ Mount \/ Unmount
    \/ TypeBuildingName
    \/ ClickSearch \/ ClickGetLocation \/ ClickCheck
    \/ ClickStart \/ ClickStop
    \/ CallCheck \/ CallStart \/ CallStop
    \/ PositionArrives \/ PositionFails \/ TimerFires
    \/ WatchArrives \/ WatchFails
    \/ LookupSucceeds \/ LookupFails \/ LookupIsRejected
    \/ CheckSucceeds \/ CheckFails \/ CheckIsRejected

SpecHandlers == Init /\ [][NextHandlers]_vars

\* getUserLocation has no guard of its own: a call that does not come from
\* its button (section 4.1 of the specification allows it) may find an
\* earlier acquisition pending
CallGetLocation == positionRequests > 0 /\ getUserLocation

\* the samples of a behaviour with such calls are few
FewPositionsArrive == now < MaxReentrantSamples /\ PositionArrives
FewWatchesArrive == now < MaxReentrantSamples /\ WatchArrives

NextReentrant ==
    \/ Mount \/ Unmount
    \/ TypeBuildingName
    \/ ClickSearch \/ ClickGetLocation \/ ClickCheck
    \/ ClickStart \/ ClickStop
    \/ CallGetLocation
    \/ FewPositionsArrive \/ PositionFails \/ TimerFires
    \/ FewWatchesArrive \/ WatchFails
    \/ LookupSucceeds \/ LookupFails \/ LookupIsRejected
    \/ CheckSucceeds \/ CheckFails \/ CheckIsRejected

SpecReentrant == Init /\ [][NextReentrant]_vars

\* the colouring of the result card over the labels a verification can
\* answer with: labels are put together from pieces of the phrases, so that
\* a phrase can occur anywhere in a label, several can occur in one, and
\* near misses (another case, a phrase cut short) occur as well
Chunks ==
    { <<"D", "e", "f", "i", "n", "i", "t", "e", "l", "y">>,
      <<"L", "i", "k", "e", "l", "y">>,
      <<" ", "i", "n", "s", "i", "d", "e">>,
      <<" ", "o", "u", "t", "s", "i", "d", "e">>,
      <<"u", "n", "c", "e", "r", "t", "a", "i", "n">>,
      <<"l", "i", "k", "e", "l", "y">>,
      <<" ">> }

RECURSIVE Concat(_)
Concat(pieces) ==
    IF pieces = <<>> THEN <<>> ELSE Head(pieces) \o Concat(Tail(pieces))

LabelTexts ==
    UNION {{Concat(pieces) : pieces \in [1..n -> Chunks]} : n \in 0..MaxLabelChunks}

\* confidence_level of an answer: absent, or a string
Labels == {Null} \cup {Some(text) : text \in LabelTexts}

\* a state of Spec: 'HQ' is resolved, one sample is held and the single
\* verification of it is in flight
InitTier ==
    /\ phase = "mounted"
    /\ hasGeolocation = TRUE
    /\ buildingName = "HQ"
    /\ building = Some(BuildingData([name |-> "HQ"]))
    /\ mapUrl = Some(MapUrlOf(BuildingData([name |-> "HQ"])))
    /\ userLocation = Some(NewLocation(48, 1))
    /\ locationHistory = <<NewLocation(48, 1)>>
    /\ delivered = <<NewLocation(48, 1)>>
    /\ now = 1
    /\ checkResult = Null
    /\ loading = TRUE
    /\ error = Null
    /\ watchId = NoId
    /\ isMonitoring = FALSE
    /\ watches = {}
    /\ cleanupWatchId = NoId
    /\ locatingProgress = PROGRESS_FULL
    /\ locatingTimer = 1
    /\ timers = {}
    /\ positionRequests = 0
    /\ lookups = <<>>
    /\ checks = <<[building_name |-> "HQ",
                   user_location |-> NewLocation(48, 1),
                   location_history |-> Null]>>

\* the verification is answered with some label
CheckAnswers ==
    \E i \in 1..Len(checks), label \in Labels :
        CheckSuccessWith(i, CheckAnswer(checks[i], label))

NextTier == CheckAnswers

SpecTier == InitTier /\ [][NextTier]_vars

----------------------------------------------------------------------------
(* Claims *)

WatchIds == {w.id : w \in watches}
Pending == positionRequests + Len(lookups) + Len(checks)
PreconditionMessage == Some(<<"Building and user location are required">>)

\* C1: when the error callback of the subscription fires while the monitor
\* is Monitoring, the monitor ends Idle with the handle released (clearWatch
\* called, watchId null) and the error slot set.
C1_ErrorReleasesSubscription ==
    [][(Mounted /\ isMonitoring /\ WatchFails)
         => /\ ~isMonitoring'
            /\ watchId' = NoId
            /\ watchId \notin {w.id : w \in watches'}
            /\ error' # Null]_vars

\* C2: after teardown no subscription is still registered with the provider.
C2_TeardownReleasesSubscription == phase = "unmounted" => watches = {}

\* C3: no failure is fatal to the monitor: whenever it is Idle, the
\* provider is present and the session is alive, start() registers a new
\* subscription and moves it to Monitoring.
C3_IdleCanRestart ==
    (Mounted /\ hasGeolocation /\ ~isMonitoring)
        => ENABLED (startLocationMonitoring /\ isMonitoring'
                    /\ Cardinality(watches') = Cardinality(watches) + 1)

\* C4: start() while already Monitoring registers no second subscription:
\* at most one subscription is registered in every reachable state.
C4_AtMostOneSubscription == Cardinality(watches) <= 1

\* a state in which start() is invoked with the monitor Monitoring and its
\* subscription registered (the call leaves this state as it is)
C4_Witness ==
    /\ isMonitoring /\ watchId \in WatchIds
    /\ ENABLED (CallStart /\ UNCHANGED vars)

\* C5: after N samples the history holds the last min(N, 10) of them in
\* arrival order, and never more than 10.
C5_HistoryIsLastTen ==
    LET n == Len(delivered)
        k == Min(n, MAX_HISTORY_POINTS)
    IN  /\ Len(locationHistory) <= MAX_HISTORY_POINTS
        /\ Len(locationHistory) = k
        /\ \A i \in 1..k : locationHistory[i] = delivered[n - k + i]

\* twelve samples have arrived and the two oldest were evicted
C5_Witness ==
    /\ Len(delivered) = MAX_HISTORY_POINTS + 2
    /\ Len(locationHistory) = MAX_HISTORY_POINTS
    /\ locationHistory[1] = delivered[3]

\* C6: a verification request leaves location_history out when the history
\* has fewer than 3 entries, and otherwise carries exactly the 3 samples
\* appended last, the oldest of the three first.
C6_HistoryHint ==
    [][Len(checks') > Len(checks)
         => LET req == checks'[Len(checks')]
                n == Len(delivered)
            IN  IF Len(locationHistory) < HISTORY_HINT
                THEN req.location_history = Null
                ELSE req.location_history =
                       Some(<< delivered[n - 2], delivered[n - 1], delivered[n] >>)]_vars

\* a request in flight carries three samples and older ones were left out
C6_Witness ==
    \E i \in 1..Len(checks) :
        /\ checks[i].location_history # Null
        /\ Len(checks[i].location_history[1]) = HISTORY_HINT
        /\ checks[i].location_history[1][1].timestamp > 1

\* C7: a verification attempted without a resolved Building or without a
\* current Sample sets the precondition error and nothing else: no request
\* is sent and the busy flag, the check result, the Building, the current
\* Sample and the history stay as they were.
C7_PreconditionFailure ==
    [][(checkLocation /\ (building = Null \/ userLocation = Null))
         => /\ error' = PreconditionMessage
            /\ UNCHANGED << loading, checkResult, building, userLocation,
                            locationHistory, lookups, checks >>]_vars

\* the precondition error is shown with a Building resolved and no Sample
C7_Witness ==
    /\ error = PreconditionMessage
    /\ building # Null /\ userLocation = Null
    /\ ~loading /\ checks = << >>

\* C8: with the busy flag gating the triggers, at most one of building
\* lookup, one-shot acquisition and verification is pending at any time.
C8_OnePendingOperation == Pending <= 1 /\ Len(checks) <= 1

\* a verification is in flight while the monitor keeps delivering samples
C8_Witness ==
    /\ Len(checks) = 1 /\ loading /\ Mounted
    /\ watches # {}
    /\ userLocation # Null /\ checks[1].user_location # userLocation[1]

\* C9: whenever no one-shot acquisition is pending, and after teardown, no
\* interval created by startLocatingProgress is still running.
C9_NoTimerLeft == (positionRequests = 0 \/ phase = "unmounted") => timers = {}

\* C10: an acquisition starts the bar at 0; while it is pending the bar
\* never decreases; the bar stays within 0..100; and the completion of the
\* acquisition, by success or by failure, leaves it at exactly 100.
C10_ProgressBar ==
    [][/\ locatingProgress' \in 0..PROGRESS_FULL
       /\ positionRequests' > positionRequests => locatingProgress' = 0
       /\ (positionRequests > 0 /\ positionRequests' = positionRequests)
            => locatingProgress' >= locatingProgress
       /\ (Mounted /\ positionRequests' < positionRequests)
            => locatingProgress' = PROGRESS_FULL]_vars

\* an acquisition has failed and the bar is full, its timer cancelled
C10_Witness ==
    /\ Mounted /\ positionRequests = 0
    /\ error = Some(<<"Error getting location: ", "Timeout expired">>)
    /\ locatingProgress = PROGRESS_FULL
    /\ timers = {}

\* C11: when the monitor receives a provider error, the current sample and
\* the history are exactly what they were before it, and the monitoring
\* status is Idle afterwards.
C11_ErrorKeepsSamples ==
    [][(Mounted /\ WatchFails)
         => /\ UNCHANGED << userLocation, locationHistory >>
            /\ ~isMonitoring']_vars

\* the monitor has failed after it delivered samples, which are still held
C11_Witness ==
    /\ Mounted /\ ~isMonitoring
    /\ error = Some(<<"Error monitoring location: ", "Timeout expired">>)
    /\ userLocation # Null
    /\ Len(locationHistory) >= 2
    /\ userLocation[1] = locationHistory[Len(locationHistory)]

\* C12: a failed one-shot acquisition leaves the history and the current
\* sample unchanged, sets the error slot and forces the progress to 100.
C12_FailedAcquisition ==
    [][(Mounted /\ PositionFails)
         => /\ UNCHANGED << userLocation, locationHistory >>
            /\ \E message \in ProviderMessages :
                 error' = Some(<<"Error getting location: ", message>>)
            /\ locatingProgress' = PROGRESS_FULL]_vars

\* an acquisition has failed while a sample of an earlier one is held
C12_Witness ==
    /\ Mounted /\ positionRequests = 0 /\ watches = {}
    /\ error = Some(<<"Error getting location: ", "Timeout expired">>)
    /\ locatingProgress = PROGRESS_FULL
    /\ userLocation # Null /\ locationHistory # <<>>

\* C13: a failed verification, by a non-success response or by a network
\* failure, leaves the current sample, the history, the resolved building
\* with its map link, the previous result and the form unchanged; of the
\* session's data only the error slot is set.
C13_FailedVerification ==
    [][(Mounted /\ (CheckFails \/ CheckIsRejected))
         => /\ UNCHANGED << userLocation, locationHistory, building, mapUrl,
                            checkResult, buildingName, watchId, isMonitoring >>
            /\ error' \in {Some(<<m>>) :
                             m \in (Details \ {""}) \cup RejectionMessages
                                     \cup {"Failed to check location"}}]_vars

\* a verification was rejected by the network: the building, the sample and
\* the history are still there
C13_Witness ==
    /\ Mounted /\ Len(checks) = 0
    /\ error = Some(<<"Failed to fetch">>)
    /\ building # Null /\ userLocation # Null /\ locationHistory # <<>>

\* C14: a failed lookup clears the resolved building and the map link; the
\* error slot gets the detail of a non-2xx response when it has one and the
\* generic message otherwise; a successful lookup sets the building and
\* its map link together; so the map link is non-null only when a building
\* is resolved.
C14_LookupOutcome ==
    /\ [](mapUrl # Null => building # Null)
    /\ [][/\ (Mounted /\ (LookupFails \/ LookupIsRejected))
              => building' = Null /\ mapUrl' = Null
          /\ \A i \in 1..Len(lookups),
                detail \in {Null} \cup {Some(d) : d \in Details} :
                (Mounted /\ LookupFailure(i, detail))
                  => error' = IF detail \in {Null, Some("")}
                              THEN Some(<<"Failed to find building">>)
                              ELSE Some(<<detail[1]>>)
          /\ (Mounted /\ LookupSucceeds)
              => /\ building' # Null
                 /\ mapUrl' = Some(MapUrlOf(building'[1]))]_vars

\* a lookup failed with a detail after an earlier one had resolved a
\* building, for which a verification result is still held
C14_Witness ==
    /\ Mounted /\ Len(lookups) = 0
    /\ error = Some(<<"not found">>)
    /\ building = Null /\ mapUrl = Null
    /\ checkResult # Null

ProviderUnavailable == Some(<<"Geolocation is not supported by your browser">>)

\* C15: stop() called in a state whose monitoring status is Idle, the Idle
\* state after a provider error included, is a no-op: nothing is set, the
\* provider is not called and no session state changes.
C15_StopWhileIdle ==
    [][(Mounted /\ ~isMonitoring /\ stopLocationMonitoring)
         => UNCHANGED vars]_vars

\* C16: start() without a location provider fails with the
\* provider-unavailable error, registers no subscription and leaves the
\* monitor Idle with a null watch handle; without a provider the monitor
\* is therefore always Idle, with no handle and nothing registered.
C16_StartWithoutProvider ==
    /\ [](~hasGeolocation
            => watches = {} /\ watchId = NoId /\ ~isMonitoring)
    /\ [][(Mounted /\ ~hasGeolocation /\ startLocationMonitoring)
            => /\ error' = ProviderUnavailable
               /\ watches' = {} /\ watchId' = NoId /\ ~isMonitoring']_vars

\* start() has failed for want of a provider after a lookup, which had
\* cleared the error slot, resolved a building
C16_Witness ==
    /\ Mounted /\ ~hasGeolocation /\ ~loading
    /\ building # Null
    /\ error = ProviderUnavailable
    /\ watches = {} /\ watchId = NoId /\ ~isMonitoring

\* C18: between event handlers the monitoring status and the watch handle
\* agree: the status is Monitoring iff watchId is non-null, and a non-null
\* watchId is a subscription registered with the provider.
C18_StatusMatchesHandle ==
    Mounted => /\ isMonitoring <=> watchId # NoId
               /\ watchId # NoId => watchId \in WatchIds

\* C19: a verification result is only held for a resolved building.
C19_ResultHasBuilding == checkResult # Null => building # Null

\* C20: every verification request names the resolved building: its
\* building_name is the name sent by the lookup that produced the current
\* Building, whatever the form holds now.
C20_RequestNamesBuilding ==
    [][Len(checks') > Len(checks)
         => checks'[Len(checks')].building_name = building[1].name]_vars

\* containment, stated over positions: the phrase occurs in the label at
\* some offset
Contains(label, phrase) ==
    \E offset \in 0..(Len(label) - Len(phrase)) :
        \A k \in 1..Len(phrase) : label[offset + k] = phrase[k]

\* the phrases in the order of their rules, and the colour of each tier
TierPhrases == <<DefinitelyInside, LikelyInside, Uncertain, LikelyOutside>>
TierColors == <<"#4caf50", "#8bc34a", "#ffeb3b", "#ff9800">>
TierE == "#f44336"

\* C17: the colouring is total and decides by substring containment, the
\* first matching rule winning in the order "Definitely inside", "Likely
\* inside", "uncertain", "Likely outside": the card has the colour of rule
\* r exactly when the label contains phrase r and none of the phrases
\* before it, and the colour of Tier E for every other label, the empty
\* and the absent one included.
C17_FirstRuleWins ==
    checkResult # Null
      => LET confidence == checkResult[1].confidence_level
             label == IF confidence = Null THEN <<>> ELSE confidence[1]
             matching == {r \in 1..Len(TierPhrases) :
                            Contains(label, TierPhrases[r])}
         IN  /\ ResultCardColor # Null
             /\ \A r \in matching :
                   (\A q \in matching : r <= q)
                     => ResultCardColor = Some(TierColors[r])
             /\ matching = {} => ResultCardColor = Some(TierE)

\* the result says "Likely insideDefinitely inside": two rules match, the
\* later rule's phrase comes first in the text, and the card has Tier A's
\* colour
C17_Witness ==
    /\ checkResult # Null
    /\ checkResult[1].confidence_level
         = Some(LikelyInside \o DefinitelyInside)
    /\ ResultCardColor = Some("#4caf50")

\* C21: in every reachable state the current sample is null exactly when
\* the history is empty, and otherwise it is the history's last entry, the
\* sample delivered most recently, whatever the interleaving of one-shot
\* completions, monitor updates, errors and stops.
C21_CurrentIsLatest ==
    /\ userLocation = Null <=> locationHistory = <<>>
    /\ userLocation # Null
         => /\ userLocation[1] = locationHistory[Len(locationHistory)]
            /\ userLocation[1] = delivered[Len(delivered)]

\* samples of a one-shot acquisition and of the monitor have arrived, old
\* ones were evicted, the monitor was stopped and a later acquisition
\* failed
C21_Witness ==
    /\ Mounted /\ ~isMonitoring /\ watchId = NoId /\ watches = {}
    /\ error = Some(<<"Error getting location: ", "Timeout expired">>)
    /\ Len(delivered) > MAX_HISTORY_POINTS
    /\ userLocation # Null
    /\ userLocation[1] = locationHistory[MAX_HISTORY_POINTS]

\* C22: while the component lives the busy flag is true exactly while a
\* lookup, a one-shot acquisition or a verification is pending; the
\* response or callback of such an operation resets it, on the success and
\* on the failure path alike; and so, the completions arriving, a busy
\* page does not stay busy forever.
C22_BusyFlag ==
    /\ [](phase # "unmounted" => (loading <=> Pending > 0))
    /\ [][(Mounted /\ (PositionCompletes \/ LookupCompletes \/ CheckCompletes))
            => ~loading']_vars
    /\ (Mounted /\ loading) ~> (~loading \/ ~Mounted)

\* a verification has succeeded and a later lookup was rejected: both have
\* reset the flag and nothing is pending
C22_Witness ==
    /\ Mounted /\ ~loading /\ Pending = 0
    /\ checkResult # Null
    /\ building = Null
    /\ error = Some(<<"Failed to fetch">>)

====
